---- MODULE Spec2Model ----
(***************************************************************************)
(* Model of integration/e2ecortex/client.go: the Client used by the        *)
(* integration tests to talk to the distributor, the querier, the ruler    *)
(* and the alertmanager.  One client serves one call at a time; a call is  *)
(* split at its only suspension point, the network round trip: the <Op>    *)
(* action runs the handler up to the point where the request is handed to  *)
(* the HTTP client, and Respond / ReadFail / TransportFail / Expire /      *)
(* CtxCancel run the rest of the handler for each way the round trip ends. *)
(***************************************************************************)
EXTENDS Integers, Sequences, FiniteSets, TLC

\* ------------------------------------------------------------------ bounds
\* number of tenant identifiers a client may be built with
MaxOrg == 2
\* largest deadline (seconds) of a caller-supplied context; 0 means none
MaxCtxDeadline == 2
\* how long past the fixed timeout the model keeps counting the wait
MaxOverrun == 1
\* largest number of time series in one pushed batch
MaxBatch == 1

\* ------------------------------------------------- constants of the program
\* client.go:62  timeout: 5 * time.Second
Timeout == 5
StatusOK == 200
StatusCreated == 201
StatusNotFound == 404

ElapsedCap == Timeout + MaxOverrun

\* ------------------------------------------------------------------ values
Nil == [kind |-> "nil"]

\* client.go:25-27
ErrNotFound == [kind |-> "error", msg |-> "not found"]

\* fmt.Errorf(format, status, string(body)): the message keeps both arguments
Errorf(format, status, body) ==
    [kind |-> "error", msg |-> format, status |-> status, body |-> body]

\* errors produced below this file (net/http, context, encoding/json, yaml)
ErrCreatingRequest == [kind |-> "error", msg |-> "error creating request"]
ErrParseURL == [kind |-> "error", msg |-> "parse: invalid URL escape"]
ErrTransport == [kind |-> "error", msg |-> "transport: connection failed"]
ErrReadBody == [kind |-> "error", msg |-> "transport: unexpected EOF reading body"]
ErrDeadlineExceeded == [kind |-> "error", msg |-> "context deadline exceeded"]
ErrCanceled == [kind |-> "error", msg |-> "context canceled"]
ErrJSONSyntax == [kind |-> "error", msg |-> "json: syntax error"]
ErrJSONType == [kind |-> "error", msg |-> "json: cannot unmarshal into ServerStatus"]
ErrYAML == [kind |-> "error", msg |-> "yaml: unmarshal error"]
ErrAPI == [kind |-> "error", msg |-> "api: bad response"]

TransportErrors == {ErrTransport, ErrReadBody, ErrDeadlineExceeded, ErrCanceled}
DecodeErrors == {ErrJSONSyntax, ErrJSONType, ErrYAML}
ConstructionErrors == {ErrParseURL, ErrCreatingRequest}

OrgIDs == {"tenant-" \o ToString(i) : i \in 1..MaxOrg}
StaleOrgID == "stale-tenant"

GoodAddr == "host:80"
BadAddr == "%zz"
NoAddr == ""

GoodConfig == "route:\n  receiver: 'default'\n"
BadConfig == "route: ["
ConfigTexts == {GoodConfig, BadConfig}

\* the statuses a server answers with: the three the client tests for, a
\* client error and a server error
Statuses == {StatusOK, StatusCreated, 400, StatusNotFound, 500}

Body(kind, text) == [kind |-> kind, text |-> text]
EmptyBody == Body("empty", "")
Bodies ==
    { EmptyBody,
      Body("text", "internal server error"),
      Body("null", "null"),
      Body("array", "[]"),
      Body("object", "{}"),
      Body("envelope", "{\"status\":\"success\",\"data\":{}}"),
      Body("rules", "ns:\n- name: g\n") }
    \cup { Body("status", y) : y \in ConfigTexts }

HeaderNames == {"X-Scope-OrgID", "Content-Type", "Content-Encoding",
                "X-Prometheus-Remote-Write-Version"}
\* a header that is not set reads ""
EmptyHeader == [h \in HeaderNames |-> ""]

AlertmanagerOps == {"GetAlertmanagerConfig", "SetAlertmanagerConfig",
                    "DeleteAlertmanagerConfig"}
QuerierAPIOps == {"Query", "LabelValues", "LabelNames"}
QueryClientOps == QuerierAPIOps \cup {"QueryRaw"}
RuleOps == {"GetRuleGroups", "SetRuleGroup", "DeleteRuleGroup"}

VARIABLES
    client,     \* the *Client NewClient returned, Nil when it returned an error
    amKind,     \* the alertmanager under test: "store" keeps one configuration
                \* per tenant, "any" answers anything
    amStore,    \* the configuration the alertmanager holds for the tenant
                \* ([kind |-> "config", text |-> ...]), or Nil
    pc,         \* "idle" | "inflight" | "panicked"
    op,         \* the operation in progress, or the last one
    sent,       \* the request as the operation handed it to the HTTP client
    wire,       \* the request as the transport put it on the wire
    elapsed,    \* seconds the request in flight has been waiting
    resp,       \* the response the last operation received, or Nil
    bodyState,  \* what the operation did with the response body
    result,     \* what the last operation returned
    setOK,      \* history: a SetAlertmanagerConfig succeeded since the start or
                \* since the last DeleteAlertmanagerConfig that succeeded
    amFault     \* history: some alertmanager call ended without its response

vars == <<client, amKind, amStore, pc, op, sent, wire, elapsed, resp, bodyState,
          result, setOK, amFault>>

\* ---------------------------------------------------------------- helpers
\* url.Parse / http.NewRequest reject a host with an invalid percent escape
ParsesAsURL(addr) == addr # BadAddr

\* http.Header.Set: replaces whatever the header held
HeaderSet(req, name, value) == [req EXCEPT !.header[name] = value]

\* the round tripper adding the header only where none is set
RoundTripKeep(r, req) ==
    IF req.header["X-Scope-OrgID"] = "" THEN HeaderSet(req, "X-Scope-OrgID", r.orgID)
    ELSE req

\* client.go:166-170  addOrgIDRoundTripper.RoundTrip
RoundTrip(r, req) == HeaderSet(req, "X-Scope-OrgID", r.orgID)

\* url.PathEscape on the namespaces and group names used
PathEscape(s) == IF s = "test/ns" THEN "test%2Fns" ELSE s

\* url.QueryEscape on the expressions used
QueryEscape(s) == IF s = "up{job=\"a b\"}" THEN "up%7Bjob%3D%22a+b%22%7D" ELSE s

\* http.NewRequest
NewRequest(method, target, addr, path, body) ==
    IF ParsesAsURL(addr)
    THEN [err |-> Nil,
          req |-> [method |-> method, target |-> target, host |-> addr,
                   path |-> path, header |-> EmptyHeader, body |-> body,
                   deadline |-> 0]]
    ELSE [err |-> ErrParseURL, req |-> Nil]

\* req.WithContext(ctx): the request carries the context's deadline (0: none)
WithContext(req, deadline) == [req EXCEPT !.deadline = deadline]

\* promapi.NewClient(promapi.Config{Address, RoundTripper})
PromAPINewClient(address, roundTripper) ==
    IF ParsesAsURL(address)
    THEN [err |-> Nil,
          client |-> [kind |-> "promapi", address |-> address,
                      roundTripper |-> roundTripper]]
    ELSE [err |-> ErrParseURL, client |-> Nil]

\* client.go:42-80
NewClient(distributorAddress, querierAddress, alertmanagerAddress, rulerAddress, orgID) ==
    LET q == PromAPINewClient(querierAddress, [orgID |-> orgID])
        c == [distributorAddress |-> distributorAddress,
              querierAddress |-> querierAddress,
              rulerAddress |-> rulerAddress,
              timeout |-> Timeout,
              querierClient |-> q.client,
              orgID |-> orgID,
              alertmanagerClient |-> Nil]
        a == PromAPINewClient(alertmanagerAddress, [orgID |-> orgID])
    IN  IF q.err # Nil THEN [client |-> Nil, err |-> q.err]
        ELSE IF alertmanagerAddress # NoAddr
        THEN IF a.err # Nil THEN [client |-> Nil, err |-> a.err]
             ELSE [client |-> [c EXCEPT !.alertmanagerClient = a.client],
                   err |-> Nil]
        ELSE [client |-> c, err |-> Nil]

\* the address sets a test passes: at most one of the four is not a good one
AddrCases ==
    { a \in [d : {GoodAddr, BadAddr}, q : {GoodAddr, BadAddr},
             a : {GoodAddr, BadAddr, NoAddr}, r : {GoodAddr, BadAddr}] :
        Cardinality({f \in {"d", "q", "a", "r"} : a[f] # GoodAddr}) <= 1 }

Init ==
    /\ \E ac \in AddrCases, o \in OrgIDs :
          client = NewClient(ac.d, ac.q, ac.a, ac.r, o).client
    /\ amKind \in {"store", "any"}
    /\ amStore = Nil
    /\ pc = "idle"
    /\ op = "none"
    /\ sent = Nil
    /\ wire = Nil
    /\ elapsed = 0
    /\ resp = Nil
    /\ bodyState = Nil
    /\ result = Nil
    /\ setOK = FALSE
    /\ amFault = FALSE

\* ------------------------------------------------- the ends of a handler
Outcome(val, err, body) == [val |-> val, err |-> err, body |-> body, panic |-> FALSE]
Panicked == [val |-> Nil, err |-> Nil, body |-> Nil, panic |-> TRUE]

\* the state of a response body: read to its end or not, closed or not.  A body
\* of length zero has nothing left to read.
BodyState(b, readAll, closed) ==
    [drained |-> (readAll \/ b.kind = "empty"), closed |-> closed]

\* a handler returns before any request is sent
ReturnEarly(o, err) ==
    /\ pc' = "idle"
    /\ op' = o
    /\ result' = [val |-> Nil, err |-> err]
    /\ resp' = Nil
    /\ bodyState' = Nil
    /\ UNCHANGED <<client, amKind, amStore, sent, wire, elapsed, setOK, amFault>>

\* a nil-pointer dereference: the goroutine panics and the process stops
Panic(o) ==
    /\ pc' = "panicked"
    /\ op' = o
    /\ result' = Nil
    /\ resp' = Nil
    /\ bodyState' = Nil
    /\ UNCHANGED <<client, amKind, amStore, sent, wire, elapsed, setOK, amFault>>

\* the request goes to the HTTP client; rt is the round tripper wrapped around
\* the default transport, Nil for c.httpClient, which has none
Send(o, req, rt) ==
    /\ pc' = "inflight"
    /\ op' = o
    /\ sent' = req
    /\ wire' = IF rt = Nil THEN req ELSE RoundTrip(rt, req)
    /\ elapsed' = 0
    /\ result' = Nil
    /\ resp' = Nil
    /\ bodyState' = Nil
    /\ UNCHANGED <<client, amKind, amStore, setOK, amFault>>

\* ------------------------------------------------------------ operations
\* Push with the request sent under no deadline
PushNoDeadline(timeseries) ==
    /\ pc = "idle" /\ client # Nil
    /\ LET data == [kind |-> "WriteRequest", timeseries |-> timeseries]
           compressed == [kind |-> "snappy", data |-> data]
           n == NewRequest("POST", "distributor", client.distributorAddress,
                           "/api/prom/push", compressed)
           h1 == HeaderSet(n.req, "Content-Encoding", "snappy")
           h2 == HeaderSet(h1, "Content-Type", "application/x-protobuf")
           h3 == HeaderSet(h2, "X-Prometheus-Remote-Write-Version", "0.1.0")
           h4 == HeaderSet(h3, "X-Scope-OrgID", client.orgID)
       IN  IF n.err # Nil THEN ReturnEarly("Push", n.err)
           ELSE Send("Push", h4, Nil)

\* client.go:83-106  Push, up to c.httpClient.Do
Push(timeseries) ==
    /\ pc = "idle" /\ client # Nil
    /\ LET data == [kind |-> "WriteRequest", timeseries |-> timeseries]
           compressed == [kind |-> "snappy", data |-> data]
           n == NewRequest("POST", "distributor", client.distributorAddress,
                           "/api/prom/push", compressed)
           h1 == HeaderSet(n.req, "Content-Encoding", "snappy")
           h2 == HeaderSet(h1, "Content-Type", "application/x-protobuf")
           h3 == HeaderSet(h2, "X-Prometheus-Remote-Write-Version", "0.1.0")
           h4 == HeaderSet(h3, "X-Scope-OrgID", client.orgID)
       IN  IF n.err # Nil THEN ReturnEarly("Push", n.err)
           ELSE Send("Push", WithContext(h4, client.timeout), Nil)

\* the request promv1.API builds for one of its calls: the library owns its
\* headers, so the tenant header may hold anything before the transport runs
QuerierAPIRequest(path, pre) ==
    LET n == NewRequest("GET", "querier", client.querierClient.address,
                        "/api/prom" \o path, EmptyBody)
    IN  HeaderSet(n.req, "X-Scope-OrgID", pre)

\* client.go:116-119  Query: context.Background(), no deadline
Query(query) ==
    /\ pc = "idle" /\ client # Nil
    /\ \E pre \in {"", StaleOrgID} :
          Send("Query",
               WithContext(QuerierAPIRequest("/api/v1/query?query=" \o QueryEscape(query), pre), 0),
               client.querierClient.roundTripper)

\* client.go:121-134  QueryRaw, up to c.httpClient.Do
QueryRaw(query) ==
    /\ pc = "idle" /\ client # Nil
    /\ LET n == NewRequest("GET", "querier", client.querierAddress,
                           "/api/prom/api/v1/query?query=" \o QueryEscape(query),
                           EmptyBody)
       IN  IF n.err # Nil THEN ReturnEarly("QueryRaw", n.err)
           ELSE Send("QueryRaw",
                     HeaderSet(WithContext(n.req, client.timeout),
                               "X-Scope-OrgID", client.orgID),
                     Nil)

\* client.go:148-152  LabelValues: context.Background(), no deadline
LabelValues(label) ==
    /\ pc = "idle" /\ client # Nil
    /\ \E pre \in {"", StaleOrgID} :
          Send("LabelValues",
               WithContext(QuerierAPIRequest("/api/v1/label/" \o label \o "/values", pre), 0),
               client.querierClient.roundTripper)

\* client.go:155-159  LabelNames: context.Background(), no deadline
LabelNames ==
    /\ pc = "idle" /\ client # Nil
    /\ \E pre \in {"", StaleOrgID} :
          Send("LabelNames",
               WithContext(QuerierAPIRequest("/api/v1/labels", pre), 0),
               client.querierClient.roundTripper)

\* client.go:211-223  GetRuleGroups, up to c.httpClient.Do
GetRuleGroups ==
    /\ pc = "idle" /\ client # Nil
    /\ LET n == NewRequest("GET", "ruler", client.rulerAddress,
                           "/api/prom/rules", EmptyBody)
       IN  IF n.err # Nil THEN ReturnEarly("GetRuleGroups", n.err)
           ELSE Send("GetRuleGroups",
                     WithContext(HeaderSet(n.req, "X-Scope-OrgID", client.orgID),
                                 client.timeout),
                     Nil)

\* client.go:245-265  SetRuleGroup, up to c.httpClient.Do
SetRuleGroup(rulegroup, namespace) ==
    /\ pc = "idle" /\ client # Nil
    /\ LET data == [kind |-> "yaml", rulegroup |-> rulegroup]
           n == NewRequest("POST", "ruler", client.rulerAddress,
                           "/api/prom/rules/" \o PathEscape(namespace), data)
           h1 == HeaderSet(n.req, "Content-Type", "application/yaml")
           h2 == HeaderSet(h1, "X-Scope-OrgID", client.orgID)
       IN  IF n.err # Nil THEN ReturnEarly("SetRuleGroup", n.err)
           ELSE Send("SetRuleGroup", WithContext(h2, client.timeout), Nil)

\* client.go:275-289  DeleteRuleGroup, up to c.httpClient.Do
DeleteRuleGroup(namespace, groupName) ==
    /\ pc = "idle" /\ client # Nil
    /\ LET n == NewRequest("DELETE", "ruler", client.rulerAddress,
                           "/api/prom/rules/" \o PathEscape(namespace) \o "/"
                               \o PathEscape(groupName),
                           EmptyBody)
           h1 == HeaderSet(n.req, "Content-Type", "application/yaml")
           h2 == HeaderSet(h1, "X-Scope-OrgID", client.orgID)
       IN  IF n.err # Nil THEN ReturnEarly("DeleteRuleGroup", n.err)
           ELSE Send("DeleteRuleGroup", WithContext(h2, client.timeout), Nil)

\* an alertmanager request, from c.alertmanagerClient.URL to
\* c.alertmanagerClient.Do(ctx, req).  URL is a method call on the interface
\* value: on the nil interface it panics.
AlertmanagerCall(o, method, path, body, ctx) ==
    /\ pc = "idle" /\ client # Nil
    /\ IF client.alertmanagerClient = Nil THEN Panic(o)
       ELSE LET n == NewRequest(method, "alertmanager",
                                client.alertmanagerClient.address, path, body)
            IN  IF n.err # Nil THEN ReturnEarly(o, ErrCreatingRequest)
                ELSE Send(o, WithContext(n.req, ctx.deadline),
                          client.alertmanagerClient.roundTripper)

\* client.go:181-189  GetAlertmanagerConfig, up to c.alertmanagerClient.Do
GetAlertmanagerConfig(ctx) ==
    AlertmanagerCall("GetAlertmanagerConfig", "GET", "/api/prom/api/v1/status",
                     EmptyBody, ctx)

\* client.go:305-322  SetAlertmanagerConfig, up to c.alertmanagerClient.Do
SetAlertmanagerConfig(ctx, amConfig, templates) ==
    AlertmanagerCall("SetAlertmanagerConfig", "POST", "/api/v1/alerts",
                     [kind |-> "yaml", template_files |-> templates,
                      alertmanager_config |-> amConfig],
                     ctx)

\* client.go:339-346  DeleteAlertmanagerConfig, up to c.alertmanagerClient.Do
DeleteAlertmanagerConfig(ctx) ==
    AlertmanagerCall("DeleteAlertmanagerConfig", "DELETE", "/api/v1/alerts",
                     EmptyBody, ctx)

\* ------------------------------------------------------------- decoding
\* json.Unmarshal(body, &ss) with var ss *ServerStatus: a syntax error for what
\* is not JSON, a type error for JSON that is no object, the nil pointer for
\* the literal null, and for an object a ServerStatus whose ConfigYaml is the
\* data.configYAML string, "" when the object has none
JSONUnmarshalServerStatus(body) ==
    CASE body.kind \in {"empty", "text", "rules"} -> [err |-> ErrJSONSyntax, ss |-> Nil]
      [] body.kind = "array" -> [err |-> ErrJSONType, ss |-> Nil]
      [] body.kind = "null" -> [err |-> Nil, ss |-> Nil]
      [] body.kind \in {"object", "envelope"} ->
            [err |-> Nil, ss |-> [Data |-> [ConfigYaml |-> ""]]]
      [] body.kind = "status" ->
            [err |-> Nil, ss |-> [Data |-> [ConfigYaml |-> body.text]]]

\* yaml.Unmarshal([]byte(text), cfg) with cfg := &alertConfig.Config{}: the
\* empty document leaves cfg as it is; cfg is never nil
YAMLUnmarshalConfig(text) ==
    IF text = "" THEN [err |-> Nil, cfg |-> [kind |-> "Config", route |-> ""]]
    ELSE IF text = GoodConfig
    THEN [err |-> Nil, cfg |-> [kind |-> "Config", route |-> "default"]]
    ELSE [err |-> ErrYAML, cfg |-> [kind |-> "Config", route |-> ""]]

\* yaml.Unmarshal(data, rgs) with rgs a map[string][]rulefmt.RuleGroup: the
\* empty document, null and the empty mapping decode to no groups; a scalar, a
\* sequence, or a mapping whose values are no sequences do not decode
YAMLUnmarshalRuleGroups(body) ==
    CASE body.kind \in {"empty", "null", "object"} -> [err |-> Nil, rgs |-> {}]
      [] body.kind = "rules" -> [err |-> Nil, rgs |-> {<<"ns", "g">>}]
      [] OTHER -> [err |-> ErrYAML, rgs |-> {}]

\* --------------------------------------- the handlers after the round trip
\* client.go:107-112  Push: the response goes back as it came, its body closed
\* by the deferred Close and never read
PushReturn(res) == Outcome(res, Nil, BodyState(res.body, FALSE, TRUE))

\* client.go:117-118, 150-151, 157-158: promv1.API reads and closes the body and
\* decodes the JSON envelope of a 200
QuerierAPIReturn(res) ==
    IF res.status = StatusOK /\ res.body.kind = "envelope"
    THEN Outcome([kind |-> "value"], Nil, BodyState(res.body, TRUE, TRUE))
    ELSE Outcome(Nil, ErrAPI, BodyState(res.body, TRUE, TRUE))

\* client.go:135-144  QueryRaw
QueryRawReturn(res) ==
    Outcome([res |-> res, body |-> res.body], Nil, BodyState(res.body, TRUE, TRUE))

\* client.go:224-241  GetRuleGroups
GetRuleGroupsReturn(res) ==
    LET y == YAMLUnmarshalRuleGroups(res.body)
    IN  IF y.err # Nil THEN Outcome(Nil, y.err, BodyState(res.body, TRUE, TRUE))
        ELSE Outcome(y.rgs, Nil, BodyState(res.body, TRUE, TRUE))

\* SetRuleGroup failing on any status that is not 2xx
SetRuleGroupReturnChecked(res) ==
    IF res.status \in {StatusOK, StatusCreated}
    THEN Outcome(Nil, Nil, BodyState(res.body, FALSE, TRUE))
    ELSE Outcome(Nil, Errorf("setting rule group failed with status %d", res.status, res.body),
                 BodyState(res.body, FALSE, TRUE))

\* client.go:266-271  SetRuleGroup
SetRuleGroupReturn(res) == Outcome(Nil, Nil, BodyState(res.body, FALSE, TRUE))

\* client.go:290-295  DeleteRuleGroup
DeleteRuleGroupReturn(res) == Outcome(Nil, Nil, BodyState(res.body, FALSE, TRUE))

\* GetAlertmanagerConfig without its test for 404
GetAlertmanagerConfigReturnNo404(res) ==
    LET j == JSONUnmarshalServerStatus(res.body)
    IN  IF j.err # Nil THEN Outcome(Nil, j.err, BodyState(res.body, TRUE, TRUE))
        ELSE IF j.ss = Nil THEN Panicked
        ELSE LET y == YAMLUnmarshalConfig(j.ss.Data.ConfigYaml)
             IN  Outcome(y.cfg, y.err, BodyState(res.body, TRUE, TRUE))

\* client.go:190-207  GetAlertmanagerConfig.  ss.Data dereferences ss: when the
\* body was the literal null, ss is nil and the dereference panics.
GetAlertmanagerConfigReturn(res) ==
    LET j == JSONUnmarshalServerStatus(res.body)
    IN  IF res.status = StatusNotFound
        THEN Outcome(Nil, ErrNotFound, BodyState(res.body, TRUE, TRUE))
        ELSE IF j.err # Nil THEN Outcome(Nil, j.err, BodyState(res.body, TRUE, TRUE))
        ELSE IF j.ss = Nil THEN Panicked
        ELSE LET y == YAMLUnmarshalConfig(j.ss.Data.ConfigYaml)
             IN  Outcome(y.cfg, y.err, BodyState(res.body, TRUE, TRUE))

\* SetAlertmanagerConfig taking 200 for its success status
SetAlertmanagerConfigReturnOK200(res) ==
    IF res.status = StatusNotFound
    THEN Outcome(Nil, ErrNotFound, BodyState(res.body, TRUE, TRUE))
    ELSE IF res.status # StatusOK
    THEN Outcome(Nil,
                 Errorf("setting config failed with status %d and error %v",
                        res.status, res.body),
                 BodyState(res.body, TRUE, TRUE))
    ELSE Outcome(Nil, Nil, BodyState(res.body, TRUE, TRUE))

\* client.go:323-335  SetAlertmanagerConfig
SetAlertmanagerConfigReturn(res) ==
    IF res.status = StatusNotFound
    THEN Outcome(Nil, ErrNotFound, BodyState(res.body, TRUE, TRUE))
    ELSE IF res.status # StatusCreated
    THEN Outcome(Nil,
                 Errorf("setting config failed with status %d and error %v",
                        res.status, res.body),
                 BodyState(res.body, TRUE, TRUE))
    ELSE Outcome(Nil, Nil, BodyState(res.body, TRUE, TRUE))

\* DeleteAlertmanagerConfig without its test for 404
DeleteAlertmanagerConfigReturnNo404(res) ==
    IF res.status # StatusOK
    THEN Outcome(Nil,
                 Errorf("deleting config failed with status %d and error %v",
                        res.status, res.body),
                 BodyState(res.body, TRUE, TRUE))
    ELSE Outcome(Nil, Nil, BodyState(res.body, TRUE, TRUE))

\* client.go:347-359  DeleteAlertmanagerConfig
DeleteAlertmanagerConfigReturn(res) ==
    IF res.status = StatusNotFound
    THEN Outcome(Nil, ErrNotFound, BodyState(res.body, TRUE, TRUE))
    ELSE IF res.status # StatusOK
    THEN Outcome(Nil,
                 Errorf("deleting config failed with status %d and error %v",
                        res.status, res.body),
                 BodyState(res.body, TRUE, TRUE))
    ELSE Outcome(Nil, Nil, BodyState(res.body, TRUE, TRUE))

\* the rest of handler o once the round trip has brought res
Handle(o, res) ==
    CASE o = "Push" -> PushReturn(res)
      [] o \in QuerierAPIOps -> QuerierAPIReturn(res)
      [] o = "QueryRaw" -> QueryRawReturn(res)
      [] o = "GetRuleGroups" -> GetRuleGroupsReturn(res)
      [] o = "SetRuleGroup" -> SetRuleGroupReturn(res)
      [] o = "DeleteRuleGroup" -> DeleteRuleGroupReturn(res)
      [] o = "GetAlertmanagerConfig" -> GetAlertmanagerConfigReturn(res)
      [] o = "SetAlertmanagerConfig" -> SetAlertmanagerConfigReturn(res)
      [] o = "DeleteAlertmanagerConfig" -> DeleteAlertmanagerConfigReturn(res)

\* the handlers that read the response body, themselves or through the API
\* library (client.go:140, 231, and promapi's Do behind 117, 150, 157, 189,
\* 322, 346)
ReadingOps == QueryClientOps \cup AlertmanagerOps \cup {"GetRuleGroups"}

\* the rest of handler o when the round trip ended in err: every handler
\* returns its zero values and the error (client.go:107-109, 135-137, 190-192,
\* 224-226, 266-268, 290-292, 323-325, 347-349)
HandleError(o, err) == [val |-> Nil, err |-> err]

\* ------------------------------------------------------ the alertmanager
\* an alertmanager that keeps one configuration per tenant: what it answers
\* to req and what it holds afterwards
AlertmanagerServe(store, req) ==
    CASE req.method = "GET" ->
            IF store = Nil
            THEN [resp |-> [status |-> StatusNotFound,
                            body |-> Body("text", "alertmanager config not found")],
                  store |-> store]
            ELSE [resp |-> [status |-> StatusOK, body |-> Body("status", store.text)],
                  store |-> store]
      [] req.method = "POST" ->
            IF YAMLUnmarshalConfig(req.body.alertmanager_config).err = Nil
            THEN [resp |-> [status |-> StatusCreated, body |-> EmptyBody],
                  store |-> [kind |-> "config",
                             text |-> req.body.alertmanager_config]]
            ELSE [resp |-> [status |-> 400, body |-> Body("text", "invalid config")],
                  store |-> store]
      [] req.method = "DELETE" ->
            IF store = Nil
            THEN [resp |-> [status |-> StatusNotFound,
                            body |-> Body("text", "alertmanager config not found")],
                  store |-> store]
            ELSE [resp |-> [status |-> StatusOK, body |-> EmptyBody],
                  store |-> Nil]

\* what the server at the other end may answer to the request on the wire
ServerAnswers ==
    IF wire.target = "alertmanager" /\ amKind = "store"
    THEN {AlertmanagerServe(amStore, wire)}
    ELSE {[resp |-> [status |-> st, body |-> b], store |-> amStore] :
            st \in Statuses, b \in Bodies}

\* ------------------------------------------------- the ends of a round trip
SetOKAfter(o, err) ==
    IF o = "SetAlertmanagerConfig" /\ err = Nil THEN TRUE
    ELSE IF o = "DeleteAlertmanagerConfig" /\ err = Nil THEN FALSE
    ELSE setOK

\* the round trip failed with err: the handler returns it
Fail(err, received) ==
    /\ pc' = "idle"
    /\ result' = HandleError(op, err)
    /\ resp' = IF received # Nil /\ op \in {"QueryRaw", "GetRuleGroups"}
               THEN received ELSE Nil
    /\ bodyState' = IF received # Nil THEN BodyState(received.body, FALSE, TRUE)
                    ELSE Nil
    /\ sent' = Nil /\ wire' = Nil /\ elapsed' = 0
    /\ amFault' = (amFault \/ op \in AlertmanagerOps)
    /\ UNCHANGED <<client, amKind, op, setOK>>

\* the server answers and the whole response arrives
Respond ==
    /\ pc = "inflight"
    /\ \E a \in ServerAnswers :
          LET out == Handle(op, a.resp)
          IN  /\ amStore' = a.store
              /\ resp' = a.resp
              /\ pc' = IF out.panic THEN "panicked" ELSE "idle"
              /\ result' = IF out.panic THEN Nil ELSE [val |-> out.val, err |-> out.err]
              /\ bodyState' = IF out.panic THEN BodyState(a.resp.body, TRUE, TRUE)
                              ELSE out.body
              /\ setOK' = IF out.panic THEN setOK ELSE SetOKAfter(op, out.err)
    /\ sent' = Nil /\ wire' = Nil /\ elapsed' = 0
    /\ UNCHANGED <<client, amKind, op, amFault>>

\* the server answers, and reading the body fails part way
ReadFail ==
    /\ pc = "inflight"
    /\ op \in ReadingOps
    /\ \E a \in ServerAnswers :
          /\ a.resp.body.kind # "empty"
          /\ amStore' = a.store
          /\ Fail(ErrReadBody, a.resp)

\* no response: the connection fails
TransportFail ==
    /\ pc = "inflight"
    /\ Fail(ErrTransport, Nil)
    /\ UNCHANGED amStore

\* the deadline of the request's context passes: the request is aborted
Expire ==
    /\ pc = "inflight"
    /\ wire.deadline # 0
    /\ elapsed >= wire.deadline
    /\ Fail(ErrDeadlineExceeded, Nil)
    /\ UNCHANGED amStore

\* the caller cancels the context it passed to an alertmanager operation
CtxCancel ==
    /\ pc = "inflight"
    /\ op \in AlertmanagerOps
    /\ Fail(ErrCanceled, Nil)
    /\ UNCHANGED amStore

\* a second passes while the request waits; the context's timer fires at its
\* deadline, so no second passes beyond it
Tick ==
    /\ pc = "inflight"
    /\ elapsed < ElapsedCap
    /\ wire.deadline = 0 \/ elapsed < wire.deadline
    /\ elapsed' = elapsed + 1
    /\ UNCHANGED <<client, amKind, amStore, pc, op, sent, wire, resp, bodyState,
                   result, setOK, amFault>>

\* ------------------------------------------------------------- the inputs
Contexts == [deadline : 0..MaxCtxDeadline]
Queries == {"up", "up{job=\"a b\"}"}
Labels == {"job"}
Namespaces == {"ns", "test/ns"}
GroupNames == {"g"}
Templates == {<<>>, <<<<"t.tmpl", "{{ define }}">>>>}

Next ==
    \/ \E n \in 0..MaxBatch : Push(n)
    \/ \E q \in Queries : Query(q)
    \/ \E q \in Queries : QueryRaw(q)
    \/ \E l \in Labels : LabelValues(l)
    \/ LabelNames
    \/ GetRuleGroups
    \/ \E g \in GroupNames, ns \in Namespaces : SetRuleGroup(g, ns)
    \/ \E g \in GroupNames, ns \in Namespaces : DeleteRuleGroup(ns, g)
    \/ \E ctx \in Contexts : GetAlertmanagerConfig(ctx)
    \/ \E ctx \in Contexts, c \in ConfigTexts, t \in Templates :
          SetAlertmanagerConfig(ctx, c, t)
    \/ \E ctx \in Contexts : DeleteAlertmanagerConfig(ctx)
    \/ Respond
    \/ ReadFail
    \/ TransportFail
    \/ Expire
    \/ CtxCancel
    \/ Tick

Spec == Init /\ [][Next]_vars

\* the timers run: time passes while a request waits, and a context whose
\* deadline has passed aborts its request.  Nothing makes a server answer.
FairSpec == Spec /\ WF_vars(Tick) /\ WF_vars(Expire)

\* ================================================================ claims
Returned(o) == pc = "idle" /\ op = o
Received == resp # Nil

\* C1: for every response the alertmanager returns, SetAlertmanagerConfig
\* returns nil exactly when the status is 201 and DeleteAlertmanagerConfig
\* exactly when it is 200; a 404 gives ErrNotFound on both; every other status
\* gives an error that is not ErrNotFound and carries the status and the body.
C1_AlertmanagerWriteStatus ==
    (pc = "idle" /\ op \in {"SetAlertmanagerConfig", "DeleteAlertmanagerConfig"}
        /\ Received)
    => LET want == IF op = "SetAlertmanagerConfig" THEN StatusCreated ELSE StatusOK
       IN  /\ (result.err = Nil) <=> (resp.status = want)
           /\ (resp.status = StatusNotFound) => (result.err = ErrNotFound)
           /\ (resp.status \notin {want, StatusNotFound})
                => /\ result.err # Nil
                   /\ result.err # ErrNotFound
                   /\ result.err.status = resp.status
                   /\ result.err.body = resp.body

\* SetAlertmanagerConfig got a 500 with a text body and returned the error
\* that carries both
C1_Witness ==
    /\ Returned("SetAlertmanagerConfig") /\ Received
    /\ resp.status = 500 /\ resp.body.kind = "text"
    /\ result.err = Errorf("setting config failed with status %d and error %v",
                           500, resp.body)

\* C2: GetAlertmanagerConfig returns ErrNotFound exactly when it received a
\* response with status 404, and then returns no configuration; a transport
\* failure or a decode failure is never reported as ErrNotFound.
C2_GetNotFoundIff404 ==
    Returned("GetAlertmanagerConfig")
    => /\ (result.err = ErrNotFound) <=> (Received /\ resp.status = StatusNotFound)
       /\ (result.err = ErrNotFound) => (result.val = Nil)
       /\ (result.err \in TransportErrors \cup DecodeErrors)
            => ~(Received /\ resp.status = StatusNotFound)

\* GetAlertmanagerConfig received a 404 whose body is a well-formed status
\* envelope, and returned ErrNotFound with no configuration
C2_Witness ==
    /\ Returned("GetAlertmanagerConfig") /\ Received
    /\ resp.status = StatusNotFound /\ resp.body.kind = "status"
    /\ result = [val |-> Nil, err |-> ErrNotFound]

\* C3: against an alertmanager that keeps one configuration per tenant, with
\* every call answered: GetAlertmanagerConfig and DeleteAlertmanagerConfig
\* return ErrNotFound whenever no SetAlertmanagerConfig has succeeded since the
\* start or since the last successful delete; a delete after a successful set
\* succeeds, and leaves the tenant with no successful set again.
C3_Step ==
    (amKind = "store" /\ ~amFault' /\ pc = "inflight" /\ pc' = "idle"
        /\ op \in {"GetAlertmanagerConfig", "DeleteAlertmanagerConfig"})
    => /\ ~setOK => result'.err = ErrNotFound
       /\ (setOK /\ op = "DeleteAlertmanagerConfig")
            => (result'.err = Nil /\ ~setOK')

C3_StoreNotFoundUntilSet == [][C3_Step]_vars

\* a delete that succeeded, on the storing alertmanager with every call answered
C3_Witness ==
    /\ amKind = "store" /\ ~amFault
    /\ Returned("DeleteAlertmanagerConfig") /\ Received
    /\ result.err = Nil /\ ~setOK /\ amStore = Nil

\* C4: every request on the wire carries X-Scope-OrgID with the tenant given to
\* NewClient, whatever the header held before the transport, and the
\* tenant-scoping transport changes nothing else of the request.
C4_TenantHeaderOnEveryRequest ==
    pc = "inflight"
    => /\ wire.header["X-Scope-OrgID"] = client.orgID
       /\ [wire EXCEPT !.header["X-Scope-OrgID"] = sent.header["X-Scope-OrgID"]] = sent

\* a request reached the transport with another tenant in the header and left
\* it with the client's
C4_Witness ==
    /\ pc = "inflight"
    /\ sent.header["X-Scope-OrgID"] = StaleOrgID
    /\ wire.header["X-Scope-OrgID"] = client.orgID

\* C5: the rule operations do not look at the status: with a response received
\* SetRuleGroup and DeleteRuleGroup return nil whatever the status, and
\* GetRuleGroups returns nil exactly when the body it read decodes; the only
\* errors are construction, transport and (GetRuleGroups) decode errors.
C5_RuleOpsIgnoreStatus ==
    (pc = "idle" /\ op \in RuleOps)
    => /\ (op \in {"SetRuleGroup", "DeleteRuleGroup"} /\ Received)
            => result.err = Nil
       /\ (op = "GetRuleGroups" /\ Received /\ result.err # ErrReadBody)
            => (result.err = Nil <=> resp.body.kind \in {"empty", "null", "object", "rules"})
       /\ result.err \in {Nil} \cup ConstructionErrors \cup TransportErrors
                          \cup (IF op = "GetRuleGroups" THEN {ErrYAML} ELSE {})

\* SetRuleGroup got a 500 and returned nil
C5_Witness ==
    /\ Returned("SetRuleGroup") /\ Received
    /\ resp.status = 500
    /\ result.err = Nil

\* C6: a Push whose distributor never answers does not wait forever: it never
\* waits past the 5 second deadline, and it returns; when it returns without a
\* response it returns a nil response and a transport or timeout error.
PushInflight == pc = "inflight" /\ op = "Push"

C6_PushStep ==
    (PushInflight /\ pc' = "idle" /\ resp' = Nil)
    => (result'.val = Nil /\ result'.err \in TransportErrors)

C6_PushBoundedByTimeout ==
    /\ [](PushInflight => (wire.deadline = Timeout /\ elapsed <= Timeout))
    /\ [][C6_PushStep]_vars
    /\ (PushInflight ~> Returned("Push"))

\* Push returned the deadline error, and no response
C6_Witness ==
    /\ Returned("Push") /\ ~Received
    /\ result = [val |-> Nil, err |-> ErrDeadlineExceeded]

\* C7: Query, QueryRaw, LabelValues and LabelNames issue their request under
\* the fixed timeout of 5 seconds.
C7_QueryOpsUnderTimeout ==
    (pc = "inflight" /\ op \in QueryClientOps) => wire.deadline = Timeout

\* C8: a client built with an empty alertmanager address answers every
\* alertmanager call with an error: no crash, no request sent.
C8_NoAlertmanagerFailsFast ==
    (client # Nil /\ client.alertmanagerClient = Nil /\ op \in AlertmanagerOps)
    => (pc = "idle" /\ result.err # Nil /\ ~Received)

\* C9: Push, QueryRaw, GetRuleGroups, SetRuleGroup and DeleteRuleGroup return
\* with the body of the response they received read to its end and closed.
C9_BodyDrainedAndClosed ==
    (pc = "idle" /\ Received /\ result.err # ErrReadBody
        /\ op \in {"Push", "QueryRaw", "GetRuleGroups", "SetRuleGroup",
                   "DeleteRuleGroup"})
    => (bodyState.drained /\ bodyState.closed)

\* C10: on a response whose status is not 404 GetAlertmanagerConfig returns
\* normally, with a decode error when the body is no JSON status envelope or
\* its configYAML does not parse, and otherwise with a configuration and a nil
\* error, never with an error carrying the status; a well-formed JSON body,
\* the literal null included, does not crash it.
C10_GetDecidedByBody ==
    (op = "GetAlertmanagerConfig" /\ pc # "inflight" /\ Received
        /\ resp.status # StatusNotFound)
    => /\ pc = "idle"
       /\ LET j == JSONUnmarshalServerStatus(resp.body)
              decodes == /\ j.err = Nil
                         /\ \/ j.ss = Nil
                            \/ YAMLUnmarshalConfig(j.ss.Data.ConfigYaml).err = Nil
          IN  IF decodes THEN result.err = Nil /\ result.val # Nil
              ELSE result.err \in DecodeErrors
====
